---- MODULE Spec2Model ----
(***************************************************************************)
(* Model of update_tags_ja.py: read export_tags.csv, add or overwrite the  *)
(* third column with the Japanese description looked up by tag name, write *)
(* the rows to export_tags_ja.csv, then os.replace it over the input.      *)
(*                                                                         *)
(* A text is a sequence of symbols, one symbol per character.  Two kinds   *)
(* of symbol stand for more than one character: "ja:<tag>" is the Japanese *)
(* description of a tag (a text without delimiter, quote, CR or LF), and   *)
(* WRun is a run of BigRun letters w, longer than any buffer of f_out.     *)
(***************************************************************************)
EXTENDS Integers, Sequences, FiniteSets, TLC

COMMA == ","
QUOTE == "\""
CR == "\r"
LF == "\n"
WRun == "[w...]"

\* ------------------------------------------------------------------ bounds
\* largest number of data lines of an input document
MaxRows == 2

\* largest number of data lines after a header other than the usual one
MaxHeaderRows == 1

\* largest number of data lines of a document of the key family
MaxKeyRows == 1

\* number of letters of the run WRun
BigRun == 20000

\* ------------------------------------------------------- the program's data
Key_value ==
    <<"^", "v", "a", "l", "u", "e", "(", "e", "x", "p", "r", "e", "s",
      "s", "i", "o", "n", ")", "^">>
Key_action ==
    <<"^", "a", "c", "t", "i", "o", "n", "(", " ", "a", "c", "t", "i",
      "o", "n", " ", ")", "^">>
Key_if ==
    <<"^", "i", "f", "(", " ", "c", "o", "n", "d", "i", "t", "i", "o",
      "n", " ", ")", "^">>
Key_else ==
    <<"^", "e", "l", "s", "e", "^">>
Key_endIf ==
    <<"^", "e", "n", "d", "I", "f", "^">>
Key_include ==
    <<"^", "i", "n", "c", "l", "u", "d", "e", "(", " ", "^", "v", "a",
      "l", "u", "e", "(", "i", "t", "e", "m", "|", "g", "r", "o", "u",
      "p", ")", "^", "[", COMMA, " ", "^", "v", "a", "l", "u", "e", "(",
      "t", "e", "m", "p", "l", "a", "t", "e", ")", "^", "]", " ", ")",
      "^">>
Key_title ==
    <<"^", "t", "i", "t", "l", "e", "(", " ", "[", "i", "t", "e", "m",
      "]", " ", ")", "^">>
Key_text ==
    <<"^", "t", "e", "x", "t", "(", " ", "[", "i", "t", "e", "m", COMMA,
      " ", "N", COMMA, " ", "p", "l", "a", "i", "n", "]", " ", ")", "^">>
Key_children ==
    <<"^", "c", "h", "i", "l", "d", "r", "e", "n", "(", " ", "[", "t",
      "e", "m", "p", "l", "a", "t", "e", "]", "[", COMMA, "N", "]", " ",
      ")", "^">>
Key_descendants ==
    <<"^", "d", "e", "s", "c", "e", "n", "d", "a", "n", "t", "s", "(",
      " ", "[", "t", "e", "m", "p", "l", "a", "t", "e", "]", "[", COMMA,
      "N", "]", " ", ")", "^">>
Key_root ==
    <<"^", "r", "o", "o", "t", "^">>
Key_url ==
    <<"^", "u", "r", "l", "(", " ", "i", "t", "e", "m", " ", ")", "^">>

\* the translation table, lines 3-16
translations ==
  (Key_value :> <<"ja:value">>)
  @@ (Key_action :> <<"ja:action">>)
  @@ (Key_if :> <<"ja:if">>)
  @@ (Key_else :> <<"ja:else">>)
  @@ (Key_endIf :> <<"ja:endIf">>)
  @@ (Key_include :> <<"ja:include">>)
  @@ (Key_title :> <<"ja:title">>)
  @@ (Key_text :> <<"ja:text">>)
  @@ (Key_children :> <<"ja:children">>)
  @@ (Key_descendants :> <<"ja:descendants">>)
  @@ (Key_root :> <<"ja:root">>)
  @@ (Key_url :> <<"ja:url">>)

\* length in bytes (UTF-8) of the descriptions
JaBytes ==
  ("ja:value" :> 189)
  @@ ("ja:action" :> 240)
  @@ ("ja:if" :> 187)
  @@ ("ja:else" :> 99)
  @@ ("ja:endIf" :> 43)
  @@ ("ja:include" :> 201)
  @@ ("ja:title" :> 114)
  @@ ("ja:text" :> 146)
  @@ ("ja:children" :> 102)
  @@ ("ja:descendants" :> 108)
  @@ ("ja:root" :> 129)
  @@ ("ja:url" :> 79)

DescriptionJa ==
    <<"D", "e", "s", "c", "r", "i", "p", "t", "i", "o", "n", "J", "a">>

\* mutant: the default of the lookup is the name itself
translations_get_name(name) ==
  IF name \in DOMAIN translations THEN translations[name] ELSE name

\* translations.get(name, "")
translations_get(name) ==
  IF name \in DOMAIN translations THEN translations[name] ELSE <<>>

\* -------------------------------------------------------------- sequences
RECURSIVE Flatten(_)
Flatten(ss) == IF ss = <<>> THEN <<>> ELSE Head(ss) \o Flatten(Tail(ss))

IsPrefix(s, t) == Len(s) <= Len(t) /\ SubSeq(t, 1, Len(s)) = s

Take(t, k) == SubSeq(t, 1, k)

Drop(t, k) == SubSeq(t, k + 1, Len(t))

\* bytes of a symbol and of a text in the encoding of the files (UTF-8)
ByteLen(c) ==
  IF c = WRun THEN BigRun
  ELSE IF c \in DOMAIN JaBytes THEN JaBytes[c] ELSE 1

\* the sum over the symbols, taken by halves
RECURSIVE Size(_)
Size(t) ==
  IF t = <<>> THEN 0
  ELSE IF Len(t) = 1 THEN ByteLen(t[1])
  ELSE LET m == Len(t) \div 2
       IN Size(Take(t, m)) + Size(Drop(t, m))

\* the first position in lo..hi of t that holds a symbol of S, hi + 1 when
\* there is none
RECURSIVE FirstOf(_, _, _, _)
FirstOf(t, lo, hi, S) ==
  IF lo > hi THEN lo
  ELSE IF lo = hi THEN (IF t[lo] \in S THEN lo ELSE lo + 1)
  ELSE LET m == (lo + hi) \div 2
           l == FirstOf(t, lo, m, S)
       IN IF l <= m THEN l ELSE FirstOf(t, m + 1, hi, S)

\* ----------------------------------------------------- open(..., 'r') text
\* universal newlines: the input is opened without newline='', so every
\* CR LF and every lone CR is read as LF
\* (the text is translated by halves; a CR LF is never split)
RECURSIVE UniversalNewlines(_)
UniversalNewlines(t) ==
  IF t = <<>> THEN <<>>
  ELSE IF Len(t) = 1 THEN (IF t[1] = CR THEN <<LF>> ELSE t)
  ELSE IF Len(t) = 2 /\ t[1] = CR /\ t[2] = LF THEN <<LF>>
  ELSE LET h == Len(t) \div 2
           m == IF t[h] = CR /\ t[h + 1] = LF THEN h + 1 ELSE h
       IN UniversalNewlines(Take(t, m)) \o UniversalNewlines(Drop(t, m))

\* -------------------------------------------------------------- csv.reader
IsNL(c) == c = CR \/ c = LF

\* position after the line terminator that starts at p (CR LF is one)
AfterNL(t, p) ==
  IF t[p] = CR /\ p < Len(t) /\ t[p + 1] = LF THEN p + 2 ELSE p + 1

\* One record of the excel dialect (delimiter ',', quotechar '"',
\* doublequote, not strict), read from position p of t.  more = FALSE is
\* the end of the input (StopIteration).  A run of symbols that a state
\* adds to the field one by one is added in one step.
RECURSIVE ReadRecord(_, _, _, _, _)
ReadRecord(t, p, st, fld, flds) ==
  IF p > Len(t)
  THEN IF st = "START_RECORD"
       THEN [more |-> FALSE, row |-> <<>>, pos |-> p]
       ELSE [more |-> TRUE, row |-> Append(flds, fld), pos |-> p]
  ELSE LET c == t[p] IN
    CASE st = "START_RECORD" ->
           IF IsNL(c)
           THEN [more |-> TRUE, row |-> <<>>, pos |-> AfterNL(t, p)]
           ELSE ReadRecord(t, p, "START_FIELD", <<>>, flds)
      [] st = "START_FIELD" ->
           IF IsNL(c)
           THEN [more |-> TRUE, row |-> Append(flds, <<>>),
                 pos |-> AfterNL(t, p)]
           ELSE IF c = QUOTE
           THEN ReadRecord(t, p + 1, "IN_QUOTED_FIELD", <<>>, flds)
           ELSE IF c = COMMA
           THEN ReadRecord(t, p + 1, "START_FIELD", <<>>, Append(flds, <<>>))
           ELSE ReadRecord(t, p + 1, "IN_FIELD", <<c>>, flds)
      [] st = "IN_FIELD" ->
           IF IsNL(c)
           THEN [more |-> TRUE, row |-> Append(flds, fld),
                 pos |-> AfterNL(t, p)]
           ELSE IF c = COMMA
           THEN ReadRecord(t, p + 1, "START_FIELD", <<>>, Append(flds, fld))
           ELSE LET q == FirstOf(t, p, Len(t), {COMMA, CR, LF})
                IN ReadRecord(t, q, "IN_FIELD", fld \o SubSeq(t, p, q - 1),
                              flds)
      [] st = "IN_QUOTED_FIELD" ->
           IF c = QUOTE
           THEN ReadRecord(t, p + 1, "QUOTE_IN_QUOTED_FIELD", fld, flds)
           ELSE LET q == FirstOf(t, p, Len(t), {QUOTE})
                IN ReadRecord(t, q, "IN_QUOTED_FIELD",
                              fld \o SubSeq(t, p, q - 1), flds)
      [] st = "QUOTE_IN_QUOTED_FIELD" ->
           IF c = QUOTE
           THEN ReadRecord(t, p + 1, "IN_QUOTED_FIELD", Append(fld, c), flds)
           ELSE IF c = COMMA
           THEN ReadRecord(t, p + 1, "START_FIELD", <<>>, Append(flds, fld))
           ELSE IF IsNL(c)
           THEN [more |-> TRUE, row |-> Append(flds, fld),
                 pos |-> AfterNL(t, p)]
           ELSE ReadRecord(t, p + 1, "IN_FIELD", Append(fld, c), flds)

\* next(reader) at position p
reader_next(t, p) == ReadRecord(t, p, "START_RECORD", <<>>, <<>>)

\* list(csv.reader(t)) from position p on
RECURSIVE ReadAll(_, _)
ReadAll(t, p) ==
  LET r == reader_next(t, p)
  IN IF r.more THEN <<r.row>> \o ReadAll(t, r.pos) ELSE <<>>

\* the rows the program reads from a file with content t
reader(t) == ReadAll(UniversalNewlines(t), 1)

\* the rows of a file with content t, read as the csv module prescribes
\* (newline=''): what any other consumer of the file sees in it
csv_rows(t) == ReadAll(t, 1)

\* -------------------------------------------------------------- csv.writer
NeedsQuote(f) == \E i \in 1..Len(f) : f[i] \in {COMMA, QUOTE, CR, LF}

\* every quote of the field doubled (the field is taken by halves)
RECURSIVE DoubleQuotes(_)
DoubleQuotes(f) ==
  IF f = <<>> THEN <<>>
  ELSE IF Len(f) = 1 THEN (IF f[1] = QUOTE THEN <<QUOTE, QUOTE>> ELSE f)
  ELSE LET m == Len(f) \div 2
       IN DoubleQuotes(Take(f, m)) \o DoubleQuotes(Drop(f, m))

\* QUOTE_MINIMAL
WriteField(f) ==
  IF NeedsQuote(f) THEN <<QUOTE>> \o DoubleQuotes(f) \o <<QUOTE>> ELSE f

RECURSIVE JoinFields(_)
JoinFields(r) ==
  IF r = <<>> THEN <<>>
  ELSE IF Len(r) = 1 THEN WriteField(r[1])
  ELSE WriteField(r[1]) \o <<COMMA>> \o JoinFields(Tail(r))

\* the text writer.writerow(r) hands to f_out.write: a row of one empty
\* field is written as "", the line terminator is CR LF
writerow(r) ==
  (IF r = << <<>> >> THEN <<QUOTE, QUOTE>> ELSE JoinFields(r)) \o <<CR, LF>>

\* ------------------------------------------------------------- the transform
\* lines 27-28
AugmentHeader(h) == IF Len(h) < 3 THEN Append(h, DescriptionJa) ELSE h

\* lines 32-33: row[0] and row[1] are read, IndexError on a shorter row
RowReadable(r) == Len(r) >= 2

\* mutant: a row that already has a third field is left as it is
AugmentRow_noOverwrite(r) ==
  IF Len(r) < 3 THEN Append(r, translations_get(r[1])) ELSE r

\* lines 34-39
AugmentRow(r) ==
  IF Len(r) < 3
  THEN Append(r, translations_get(r[1]))
  ELSE [r EXCEPT ![3] = translations_get(r[1])]

\* ------------------------------------------------------- the buffers of f_out
\* f_out is a text file over a buffered binary file: a line handed to
\* f_out.write waits in the text layer (pending), goes from there to the
\* buffer of the binary layer (buffered) and from there to the file.  The
\* file takes bytes, so a write can end inside a symbol of more than one
\* byte: the file then holds f bytes of that symbol.  The content of the
\* file is given by its whole symbols; a symbol of which the file holds a
\* part stays the first symbol of the buffer, with the number f of its
\* bytes that the file has.

\* TextIOWrapper._CHUNK_SIZE
ChunkSize == 8192

\* sizes of the buffer of the binary layer: the block size that the file
\* system reports for the file (st_blksize)
BlockSizes == {4096}

Max(a, b) == IF a >= b THEN a ELSE b

\* the places <<k, f>> at which writing the buffer bf to the file can
\* raise: after k symbols and f bytes of the next one, before the last
\* byte; pt bytes of the first symbol are in the file already
FlushCuts(bf, pt) ==
  UNION { { <<k, f>> : f \in (IF k = 0 THEN pt ELSE 0)..(ByteLen(bf[k + 1]) - 1) } :
            k \in 0..(Len(bf) - 1) }

\* the places <<k, f>> at which a write of data to the file can end, for
\* a buffer of size bs: every place between two symbols, and every place
\* inside a symbol that leaves no more than bs bytes (a place inside a
\* symbol that leaves more is a write that raises, and leaves the file,
\* in whole symbols, as the place before that symbol does)
DirectCuts(data, bs) ==
  { <<Len(data), 0>> } \cup
  UNION { { <<k, f>> :
              f \in {0} \cup (Max(1, Size(Drop(data, k)) - bs)
                              ..(ByteLen(data[k + 1]) - 1)) } :
            k \in 0..(Len(data) - 1) }

\* BufferedWriter.write(data) with buffer bf of size bs, of whose first
\* symbol pt bytes are in the file, over a file with content dk: the
\* outcomes.  Data that fits in the free bytes of the buffer is buffered.
\* Otherwise the buffer is written to the file, which raises at a place of
\* FlushCuts, or goes through; then data that is no larger than the buffer
\* is buffered, and larger data is written to the file up to a place of
\* DirectCuts: a rest of no more than bs bytes is buffered, a larger rest
\* means a write that raised, and is lost.
BufferedWrite(bf, pt, dk, data, bs) ==
  IF Size(data) <= bs - (Size(bf) - pt)
  THEN {[err |-> FALSE, buffered |-> bf \o data, partial |-> pt,
         disk |-> dk]}
  ELSE {[err |-> TRUE, buffered |-> Drop(bf, c[1]), partial |-> c[2],
         disk |-> dk \o Take(bf, c[1])] : c \in FlushCuts(bf, pt)}
       \cup
       (IF Size(data) <= bs
        THEN {[err |-> FALSE, buffered |-> data, partial |-> 0,
               disk |-> dk \o bf]}
        ELSE {LET raised == Size(Drop(data, c[1])) - c[2] > bs
              IN [err |-> raised,
                  buffered |-> IF raised THEN <<>> ELSE Drop(data, c[1]),
                  partial |-> IF raised THEN 0 ELSE c[2],
                  disk |-> dk \o bf \o Take(data, c[1])] :
                c \in DirectCuts(data, bs)})

\* the text layer hands pending text pd to the binary layer
WriteFlush(pd, bf, pt, dk, bs) ==
  {[err |-> o.err, pending |-> <<>>, buffered |-> o.buffered,
    partial |-> o.partial, disk |-> o.disk] :
     o \in BufferedWrite(bf, pt, dk, pd, bs)}

\* f_out.write(line): pending text that the line would take over the chunk
\* size is handed down first, then the line is added to the pending text,
\* which is handed down when it has reached the chunk size.  Text that is
\* handed down when a write raises is lost, and so is the line.
TextWrite(pd, bf, pt, dk, line, bs) ==
  LET first == IF pd # <<>> /\ Size(pd) + Size(line) > ChunkSize
               THEN WriteFlush(pd, bf, pt, dk, bs)
               ELSE {[err |-> FALSE, pending |-> pd, buffered |-> bf,
                      partial |-> pt, disk |-> dk]}
      Second(o) ==
        IF o.err THEN {o}
        ELSE IF Size(o.pending \o line) >= ChunkSize
        THEN WriteFlush(o.pending \o line, o.buffered, o.partial, o.disk, bs)
        ELSE {[o EXCEPT !.pending = o.pending \o line]}
  IN UNION {Second(o) : o \in first}

\* ---------------------------------------------------------- input documents
HeaderLines ==
  { <<"N", "a", "m", "e", COMMA, "E", "n">>,
    <<"N", "a", "m", "e">>,
    <<>>,
    <<"N", "a", "m", "e", COMMA, QUOTE, "E", CR, LF, "n", QUOTE, COMMA,
      "O", "t", "h", "e", "r">> }

DataLines ==
  { <<"^", "r", "o", "o", "t", "^", COMMA, "x">>,
    <<"^", "r", "o", "o", "t", "^", COMMA, "x", COMMA, "o", "l", "d">>,
    <<"u", "n", "k", COMMA, "x", COMMA, "o", "l", "d", COMMA, "e", "x",
      "t", "r", "a">>,
    <<"^", "r", "o", "o", "t", "^">>,
    <<>> }

\* a line with a field longer than the buffers of f_out, and a short one
LongLine == <<"^", "r", "o", "o", "t", "^", COMMA, WRun, COMMA, "o", "l", "d">>

ShortLine == <<"u", "n", "k", COMMA, "x">>

\* a line for each key of the table, one with a name that the reader puts
\* together from a quoted and an unquoted part, one with a name that is the
\* beginning of a key
KeyLines ==
  << <<"^", "v", "a", "l", "u", "e", "(", "e", "x", "p", "r", "e", "s",
       "s", "i", "o", "n", ")", "^", COMMA, "x">>,
     <<"^", "a", "c", "t", "i", "o", "n", "(", " ", "a", "c", "t", "i",
       "o", "n", " ", ")", "^", COMMA, "x", COMMA, "o", "l", "d">>,
     <<"^", "i", "f", "(", " ", "c", "o", "n", "d", "i", "t", "i", "o",
       "n", " ", ")", "^", COMMA, "x">>,
     <<"^", "e", "l", "s", "e", "^", COMMA, "x", COMMA, "o", "l", "d">>,
     <<"^", "e", "n", "d", "I", "f", "^", COMMA, "x">>,
     <<QUOTE, "^", "i", "n", "c", "l", "u", "d", "e", "(", " ", "^", "v",
       "a", "l", "u", "e", "(", "i", "t", "e", "m", "|", "g", "r", "o",
       "u", "p", ")", "^", "[", COMMA, " ", "^", "v", "a", "l", "u", "e",
       "(", "t", "e", "m", "p", "l", "a", "t", "e", ")", "^", "]", " ",
       ")", "^", QUOTE, COMMA, "x", COMMA, "o", "l", "d">>,
     <<"^", "t", "i", "t", "l", "e", "(", " ", "[", "i", "t", "e", "m",
       "]", " ", ")", "^", COMMA, "x">>,
     <<QUOTE, "^", "t", "e", "x", "t", "(", " ", "[", "i", "t", "e", "m",
       COMMA, " ", "N", COMMA, " ", "p", "l", "a", "i", "n", "]", " ",
       ")", "^", QUOTE, COMMA, "x", COMMA, "o", "l", "d">>,
     <<QUOTE, "^", "c", "h", "i", "l", "d", "r", "e", "n", "(", " ", "[",
       "t", "e", "m", "p", "l", "a", "t", "e", "]", "[", COMMA, "N", "]",
       " ", ")", "^", QUOTE, COMMA, "x">>,
     <<QUOTE, "^", "d", "e", "s", "c", "e", "n", "d", "a", "n", "t", "s",
       "(", " ", "[", "t", "e", "m", "p", "l", "a", "t", "e", "]", "[",
       COMMA, "N", "]", " ", ")", "^", QUOTE, COMMA, "x", COMMA, "o",
       "l", "d">>,
     <<"^", "r", "o", "o", "t", "^", COMMA, "x">>,
     <<"^", "u", "r", "l", "(", " ", "i", "t", "e", "m", " ", ")", "^",
       COMMA, "x", COMMA, "o", "l", "d">>,
     <<QUOTE, "^", "r", "o", QUOTE, "o", "t", "^", COMMA, "x">>,
     <<"^", "r", "o", "o", "t", COMMA, "x">> >>

\* a document ends its lines with LF and its last line too, or ends them
\* with CR LF and leaves its last line open
LineStyles == { [eol |-> <<LF>>, terminated |-> TRUE],
                [eol |-> <<CR, LF>>, terminated |-> FALSE] }

\* the lines joined by the line end; the last line ends with it or not
RECURSIVE JoinLines(_, _, _)
JoinLines(ls, eol, terminated) ==
  IF ls = <<>> THEN <<>>
  ELSE IF Len(ls) = 1
       THEN Head(ls) \o (IF terminated THEN eol ELSE <<>>)
       ELSE Head(ls) \o eol \o JoinLines(Tail(ls), eol, terminated)

DataLineSeqs == UNION { [1..n -> DataLines] : n \in 0..MaxRows }

HeaderLineSeqs == UNION { [1..n -> DataLines] : n \in 0..MaxHeaderRows }

\* n lines of KeyLines in a row, from line k on (and on from the first
\* line after the last)
KeyLineSeqs ==
  { [i \in 1..n |-> KeyLines[((k + i - 2) % Len(KeyLines)) + 1]] :
      k \in 1..Len(KeyLines), n \in 1..MaxKeyRows }

\* the long line after a short line, as the last line and before a
\* short line
LongLineSeqs ==
  { <<ShortLine, LongLine>>, <<ShortLine, LongLine, ShortLine>> }

\* the documents: the usual header with every sequence of data lines; every
\* header with the shorter sequences, in both line styles; the usual
\* header with key lines; the usual header with a long line
InputDocuments ==
  { JoinLines(<<<<"N", "a", "m", "e", COMMA, "E", "n">>>> \o ds, <<LF>>, TRUE) :
      ds \in DataLineSeqs }
  \cup
  { JoinLines(<<h>> \o ds, st.eol, st.terminated) :
      h \in HeaderLines, ds \in HeaderLineSeqs, st \in LineStyles }
  \cup
  { JoinLines(<<<<"N", "a", "m", "e", COMMA, "E", "n">>>> \o ds, <<LF>>, TRUE) :
      ds \in KeyLineSeqs \cup LongLineSeqs }

\* -------------------------------------------------------------------- state
VARIABLES
  finalData,    \* content of input_file (export_tags.csv)
  tempExists,   \* output_file (export_tags_ja.csv) exists
  tempData,     \* content of output_file on disk
  pc,           \* position of the run in the script
  f_in_open,    \* the input handle is open
  f_out_open,   \* the output handle is open
  inPos,        \* position of the reader in the decoded input
  row,          \* the header or row in hand
  pending,      \* text written to f_out that waits in its text layer
  buffered,     \* text that waits in the buffer of its binary layer
  partial,      \* bytes of the first symbol of buffered that are in the file
  blksize,      \* size of that buffer, 0 while f_out is not open
  printed,      \* confirmation messages printed by this run
  failedAt,     \* step at which this run raised, "none" if it has not
  orig,         \* content of input_file when this run started
  afterSuccess  \* an earlier run on this path has completed

vars == <<finalData, tempExists, tempData, pc, f_in_open, f_out_open, inPos,
          row, pending, buffered, partial, blksize, printed, failedAt, orig,
          afterSuccess>>

\* the text the reader iterates over
Decoded == UniversalNewlines(finalData)

Init ==
  /\ finalData \in InputDocuments
  /\ tempExists = FALSE
  /\ tempData = <<>>
  /\ pc = "open_in"
  /\ f_in_open = FALSE
  /\ f_out_open = FALSE
  /\ inPos = 1
  /\ row = <<>>
  /\ pending = <<>>
  /\ buffered = <<>>
  /\ partial = 0
  /\ blksize = 0
  /\ printed = 0
  /\ failedAt = "none"
  /\ orig = finalData
  /\ afterSuccess = FALSE

\* an exception inside the with block: control goes to the exit of the block
Raise(step) ==
  /\ failedAt' = step
  /\ pc' = "exit_with"

\* ------------------------------------------------------------------ actions
\* line 21: open(input_file, 'r')
OpenIn ==
  /\ pc = "open_in"
  /\ f_in_open' = TRUE
  /\ inPos' = 1
  /\ pc' = "open_out"
  /\ UNCHANGED <<finalData, tempExists, tempData, f_out_open, row, pending,
                 buffered, partial, blksize, printed, failedAt, orig,
                 afterSuccess>>

\* line 21 raises OSError: nothing has been opened
OpenInFail ==
  /\ pc = "open_in"
  /\ failedAt' = "open_in"
  /\ pc' = "aborted"
  /\ UNCHANGED <<finalData, tempExists, tempData, f_in_open, f_out_open,
                 inPos, row, pending, buffered, partial, blksize,
                 printed, orig, afterSuccess>>

\* mutant: the output is opened for appending
OpenOut_append ==
  /\ pc = "open_out"
  /\ tempExists' = TRUE
  /\ tempData' = tempData
  /\ f_out_open' = TRUE
  /\ blksize' \in BlockSizes
  /\ pc' = "read_header"
  /\ UNCHANGED <<finalData, f_in_open, inPos, row, pending, buffered,
                 partial, printed, failedAt, orig, afterSuccess>>

\* line 22: open(output_file, 'w') creates or truncates the file; the
\* buffers of the new handle are empty
OpenOut ==
  /\ pc = "open_out"
  /\ tempExists' = TRUE
  /\ tempData' = <<>>
  /\ f_out_open' = TRUE
  /\ blksize' \in BlockSizes
  /\ pc' = "read_header"
  /\ UNCHANGED <<finalData, f_in_open, inPos, row, pending, buffered,
                 partial, printed, failedAt, orig, afterSuccess>>

\* mutant: the two files are opened outside a with statement, the
\* exception leaves the script with f_in open
OpenOutFail_leak ==
  /\ pc = "open_out"
  /\ failedAt' = "open_out"
  /\ pc' = "aborted"
  /\ UNCHANGED <<finalData, tempExists, tempData, f_in_open, f_out_open,
                 inPos, row, pending, buffered, partial, blksize,
                 printed, orig, afterSuccess>>

\* line 22 raises OSError: the with statement closes f_in
OpenOutFail ==
  /\ pc = "open_out"
  /\ Raise("open_out")
  /\ UNCHANGED <<finalData, tempExists, tempData, f_in_open, f_out_open,
                 inPos, row, pending, buffered, partial, blksize,
                 printed, orig, afterSuccess>>

\* line 26: header = next(reader)
ReadHeader ==
  /\ pc = "read_header"
  /\ LET r == reader_next(Decoded, inPos)
     IN /\ r.more
        /\ row' = r.row
        /\ inPos' = r.pos
  /\ pc' = "augment_header"
  /\ UNCHANGED <<finalData, tempExists, tempData, f_in_open, f_out_open,
                 pending, buffered, partial, blksize, printed, failedAt,
                 orig, afterSuccess>>

\* line 26 on an empty input: StopIteration
ReadHeaderStop ==
  /\ pc = "read_header"
  /\ ~ reader_next(Decoded, inPos).more
  /\ Raise("read_header")
  /\ UNCHANGED <<finalData, tempExists, tempData, f_in_open, f_out_open,
                 inPos, row, pending, buffered, partial, blksize,
                 printed, orig, afterSuccess>>

\* the positions the reader can be at while it reads the record that
\* starts at p and ends before e: p itself, and the position after every
\* line of the record (a quoted field can hold line ends, and the reader
\* takes the record from f_in line by line)
RecordLineEnds(t, p, e) ==
  {p} \cup { q \in (p + 1)..e : q = e \/ t[q - 1] = LF }

\* lines 26 and 31: reading raises.  An OSError or a UnicodeDecodeError
\* of f_in is raised when the reader asks for a line, a csv.Error (a field
\* over the field size limit) when it has taken the line that makes the
\* field too long: the lines of the record taken before stay taken, the
\* lines after are not read
ReadFail ==
  /\ pc \in {"read_header", "read_row"}
  /\ \E q \in RecordLineEnds(Decoded, inPos, reader_next(Decoded, inPos).pos) :
       inPos' = q
  /\ Raise("read")
  /\ UNCHANGED <<finalData, tempExists, tempData, f_in_open, f_out_open,
                 row, pending, buffered, partial, blksize, printed, orig,
                 afterSuccess>>

\* lines 27-28: the header gets its label
AppendLabel ==
  /\ pc = "augment_header"
  /\ row' = AugmentHeader(row)
  /\ pc' = "write_header"
  /\ UNCHANGED <<finalData, tempExists, tempData, f_in_open, f_out_open,
                 inPos, pending, buffered, partial, blksize, printed,
                 failedAt, orig, afterSuccess>>

\* writer.writerow(row) goes through: the line is in the buffers of f_out
\* or, as far as they were written out, in the file (a write to the file
\* that the file takes only in part does not raise when the rest fits in
\* the buffer)
WriteLine ==
  \E o \in TextWrite(pending, buffered, partial, tempData, writerow(row),
                     blksize) :
    /\ ~ o.err
    /\ pending' = o.pending
    /\ buffered' = o.buffered
    /\ partial' = o.partial
    /\ tempData' = o.disk

\* line 29
WriteHeader ==
  /\ pc = "write_header"
  /\ WriteLine
  /\ pc' = "read_row"
  /\ UNCHANGED <<finalData, tempExists, f_in_open, f_out_open, inPos, row,
                 blksize, printed, failedAt, orig, afterSuccess>>

\* line 31: for row in reader
ReadRow ==
  /\ pc = "read_row"
  /\ LET r == reader_next(Decoded, inPos)
     IN /\ r.more
        /\ row' = r.row
        /\ inPos' = r.pos
  /\ pc' = "process_row"
  /\ UNCHANGED <<finalData, tempExists, tempData, f_in_open, f_out_open,
                 pending, buffered, partial, blksize, printed, failedAt,
                 orig, afterSuccess>>

\* line 31: the reader is exhausted, the with block ends
ReadRowEnd ==
  /\ pc = "read_row"
  /\ ~ reader_next(Decoded, inPos).more
  /\ pc' = "exit_with"
  /\ UNCHANGED <<finalData, tempExists, tempData, f_in_open, f_out_open,
                 inPos, row, pending, buffered, partial, blksize,
                 printed, failedAt, orig, afterSuccess>>

\* lines 32-39
ProcessRow ==
  /\ pc = "process_row"
  /\ RowReadable(row)
  /\ row' = AugmentRow(row)
  /\ pc' = "write_row"
  /\ UNCHANGED <<finalData, tempExists, tempData, f_in_open, f_out_open,
                 inPos, pending, buffered, partial, blksize, printed,
                 failedAt, orig, afterSuccess>>

\* lines 32-33: IndexError on a row of fewer than two fields
ProcessRowIndexError ==
  /\ pc = "process_row"
  /\ ~ RowReadable(row)
  /\ Raise("process_row")
  /\ UNCHANGED <<finalData, tempExists, tempData, f_in_open, f_out_open,
                 inPos, row, pending, buffered, partial, blksize,
                 printed, orig, afterSuccess>>

\* line 40
WriteRow ==
  /\ pc = "write_row"
  /\ WriteLine
  /\ pc' = "read_row"
  /\ UNCHANGED <<finalData, tempExists, f_in_open, f_out_open, inPos, row,
                 blksize, printed, failedAt, orig, afterSuccess>>

\* lines 29 and 40 raise OSError: a write of f_out to the file raises.  Only
\* a line that makes the buffers write to the file can do so; what the
\* file and the buffers hold then is an outcome of TextWrite with err.
WriteFail ==
  /\ pc \in {"write_header", "write_row"}
  /\ \E o \in TextWrite(pending, buffered, partial, tempData,
                        writerow(row), blksize) :
       /\ o.err
       /\ pending' = o.pending
       /\ buffered' = o.buffered
       /\ partial' = o.partial
       /\ tempData' = o.disk
  /\ Raise("write")
  /\ UNCHANGED <<finalData, tempExists, f_in_open, f_out_open, inPos, row,
                 blksize, printed, orig, afterSuccess>>

\* mutant: the replace sits in a finally clause and runs after an
\* exception too
ExitWith_finally ==
  /\ pc = "exit_with"
  /\ f_in_open' = FALSE
  /\ f_out_open' = FALSE
  /\ tempData' = tempData \o buffered \o pending
  /\ pending' = <<>>
  /\ buffered' = <<>>
  /\ partial' = 0
  /\ blksize' = 0
  /\ pc' = "replace"
  /\ UNCHANGED <<finalData, tempExists, inPos, row, printed, failedAt, orig,
                 afterSuccess>>

\* end of the with statement, reached normally or by an exception: f_out
\* is closed, which writes what its buffers hold to the file, then f_in is
\* closed; an exception then leaves the script
ExitWith ==
  /\ pc = "exit_with"
  /\ f_in_open' = FALSE
  /\ f_out_open' = FALSE
  /\ tempData' = tempData \o buffered \o pending
  /\ pending' = <<>>
  /\ buffered' = <<>>
  /\ partial' = 0
  /\ blksize' = 0
  /\ pc' = IF failedAt = "none" THEN "replace" ELSE "aborted"
  /\ UNCHANGED <<finalData, tempExists, inPos, row, printed, failedAt, orig,
                 afterSuccess>>

\* closing f_out raises OSError, after the block has ended normally or by
\* an exception: of the text in the buffers the first k symbols have
\* reached the file as whole symbols, the rest is lost; the handles are
\* closed all the same
ExitWithCloseFail ==
  /\ pc = "exit_with"
  /\ f_out_open
  /\ f_in_open' = FALSE
  /\ f_out_open' = FALSE
  /\ \E k \in 0..Len(buffered \o pending) :
       tempData' = tempData \o Take(buffered \o pending, k)
  /\ pending' = <<>>
  /\ buffered' = <<>>
  /\ partial' = 0
  /\ blksize' = 0
  /\ failedAt' = "close"
  /\ pc' = "aborted"
  /\ UNCHANGED <<finalData, tempExists, inPos, row, printed, orig,
                 afterSuccess>>

\* line 43: os.replace(output_file, input_file)
Replace ==
  /\ pc = "replace"
  /\ finalData' = tempData
  /\ tempExists' = FALSE
  /\ tempData' = <<>>
  /\ pc' = "print"
  /\ UNCHANGED <<f_in_open, f_out_open, inPos, row, pending, buffered,
                 partial, blksize, printed, failedAt, orig,
                 afterSuccess>>

\* mutant: the error of the replace is swallowed and the script goes on
ReplaceFail_swallow ==
  /\ pc = "replace"
  /\ failedAt' = "replace"
  /\ pc' = "print"
  /\ UNCHANGED <<finalData, tempExists, tempData, f_in_open, f_out_open,
                 inPos, row, pending, buffered, partial, blksize,
                 printed, orig, afterSuccess>>

\* line 43 raises OSError: neither file is touched
ReplaceFail ==
  /\ pc = "replace"
  /\ failedAt' = "replace"
  /\ pc' = "aborted"
  /\ UNCHANGED <<finalData, tempExists, tempData, f_in_open, f_out_open,
                 inPos, row, pending, buffered, partial, blksize,
                 printed, orig, afterSuccess>>

\* line 44: the message is printed
Confirm ==
  /\ pc = "print"
  /\ printed' = printed + 1
  /\ pc' = "done"
  /\ UNCHANGED <<finalData, tempExists, tempData, f_in_open, f_out_open,
                 inPos, row, pending, buffered, partial, blksize, failedAt,
                 orig, afterSuccess>>

\* line 44 with standard output closed (sys.stdout is None): print returns
\* and prints nothing, the script ends with status 0
ConfirmSilent ==
  /\ pc = "print"
  /\ pc' = "done"
  /\ UNCHANGED <<finalData, tempExists, tempData, f_in_open, f_out_open,
                 inPos, row, pending, buffered, partial, blksize, printed,
                 failedAt, orig, afterSuccess>>

\* line 44 raises OSError (standard output takes no more bytes): the script
\* ends with status 1, after the replace.  print writes the text and then
\* the line end: the text may be on standard output in full when the line
\* end fails, otherwise the message did not get there
ConfirmFail ==
  /\ pc = "print"
  /\ \E n \in {0, 1} : printed' = printed + n
  /\ failedAt' = "print"
  /\ pc' = "aborted"
  /\ UNCHANGED <<finalData, tempExists, tempData, f_in_open, f_out_open,
                 inPos, row, pending, buffered, partial, blksize,
                 orig, afterSuccess>>

\* line 44 returns with the message in the buffer of standard output, and
\* the flush at the end of the script fails: the script ends with status
\* 120; standard output has taken nothing or a part of the message, which
\* may be its whole text without the line end
ConfirmLost ==
  /\ pc = "print"
  /\ \E n \in {0, 1} : printed' = printed + n
  /\ failedAt' = "flush_stdout"
  /\ pc' = "aborted"
  /\ UNCHANGED <<finalData, tempExists, tempData, f_in_open, f_out_open,
                 inPos, row, pending, buffered, partial, blksize,
                 orig, afterSuccess>>

\* the script is run again on the same paths
Rerun ==
  /\ pc \in {"done", "aborted"}
  /\ pc' = "open_in"
  /\ inPos' = 1
  /\ row' = <<>>
  /\ printed' = 0
  /\ failedAt' = "none"
  /\ orig' = finalData
  /\ afterSuccess' = (afterSuccess \/ pc = "done")
  /\ UNCHANGED <<finalData, tempExists, tempData, f_in_open, f_out_open,
                 pending, buffered, partial, blksize>>

Next ==
  \/ OpenIn \/ OpenInFail \/ OpenOut \/ OpenOutFail
  \/ ReadHeader \/ ReadHeaderStop \/ ReadFail \/ AppendLabel \/ WriteHeader
  \/ ReadRow \/ ReadRowEnd \/ ProcessRow \/ ProcessRowIndexError
  \/ WriteRow \/ WriteFail
  \/ ExitWith \/ ExitWithCloseFail
  \/ Replace \/ ReplaceFail
  \/ Confirm \/ ConfirmSilent \/ ConfirmFail \/ ConfirmLost \/ Rerun

Spec == Init /\ [][Next]_vars

\* ------------------------------------------------- the run as one function
\* the rows written for the rows rs: the header, then each data row
AugmentDoc(rs) ==
  [i \in 1..Len(rs) |->
     IF i = 1 THEN AugmentHeader(rs[i]) ELSE AugmentRow(rs[i])]

\* the text the writer produces for the rows rs
WriteRows(rs) == Flatten([i \in 1..Len(rs) |-> writerow(rs[i])])

\* the run goes through: there is a header and no data row raises
Processable(t) ==
  LET rs == reader(t)
  IN Len(rs) >= 1 /\ \A i \in 2..Len(rs) : RowReadable(rs[i])

\* number of leading rows the run gets through before a row raises
RECURSIVE GoodRows(_, _)
GoodRows(rs, n) ==
  IF n < Len(rs) /\ (n = 0 \/ RowReadable(rs[n + 1]))
  THEN GoodRows(rs, n + 1) ELSE n

\* what the run has handed to f_out when it ends or raises on a row; the
\* complete augmented document when the input is processable
Transform(t) ==
  LET rs == reader(t)
  IN WriteRows(AugmentDoc(SubSeq(rs, 1, GoodRows(rs, 0))))

\* ------------------------------------------------------------------- claims
\* the rows this run loads from its input, and the rows of the file as it
\* is now
InRows == reader(orig)
OutRows == csv_rows(finalData)

\* the rows of the input file of this run, read as the csv module
\* prescribes (newline=''): the fields as the file holds them
FileRows == csv_rows(orig)


\* the text this run has handed to f_out: in the file or in the buffers
Written == tempData \o buffered \o pending

\* C1: at every step of every run the final path holds either the original
\* document or the complete augmented document, and the replace step is
\* only reached with the complete augmented document in the temp file.
C1_NoPartialOutput ==
  /\ \/ finalData = orig
     \/ Processable(orig) /\ finalData = Transform(orig)
  /\ pc = "replace" =>
       tempExists /\ Processable(orig) /\ tempData = Transform(orig)
  /\ pc \in {"print", "done"} =>
       Processable(orig) /\ finalData = Transform(orig)

C1_Witness ==
  /\ pc = "done"
  /\ finalData # orig
  /\ Len(InRows) >= 3

\* C2: after a successful run, every data row whose Name is a key of the
\* table has the table's value as its third field, whether the input row
\* had two fields or more.
C2_KeyRowsTranslated ==
  pc = "done" =>
    \A n \in 2..Len(InRows) :
      (Len(InRows[n]) >= 1 /\ InRows[n][1] \in DOMAIN translations) =>
        /\ n <= Len(OutRows)
        /\ Len(OutRows[n]) >= 3
        /\ OutRows[n][3] = translations[InRows[n][1]]

C2_Witness ==
  /\ pc = "done"
  /\ \E n \in 2..Len(InRows) :
       InRows[n][1] \in DOMAIN translations /\ Len(InRows[n]) = 2
  /\ \E n \in 2..Len(InRows) :
       /\ InRows[n][1] \in DOMAIN translations
       /\ Len(InRows[n]) >= 3
       /\ InRows[n][3] # translations[InRows[n][1]]

\* C3: after a successful run, every data row whose Name is not a key of
\* the table has the empty string as its third field, also when the input
\* row carried a third field that was not empty.
C3_OtherRowsEmpty ==
  pc = "done" =>
    \A n \in 2..Len(InRows) :
      (Len(InRows[n]) >= 1 /\ InRows[n][1] \notin DOMAIN translations) =>
        /\ n <= Len(OutRows)
        /\ Len(OutRows[n]) >= 3
        /\ OutRows[n][3] = <<>>

C3_Witness ==
  /\ pc = "done"
  /\ \E n \in 2..Len(InRows) :
       /\ InRows[n][1] \notin DOMAIN translations
       /\ Len(InRows[n]) >= 3
       /\ InRows[n][3] # <<>>
  /\ \E n \in 2..Len(InRows) :
       InRows[n][1] \in DOMAIN translations /\ Len(InRows[n]) = 2

\* C4: a successful run on the output of an earlier successful run leaves
\* the file as it found it.
C4_Idempotent ==
  (pc = "done" /\ afterSuccess) => finalData = orig

\* C5: after a successful run the file has as many rows as the input file
\* had, in the same order, with the same first and second fields; a row
\* that had three or more fields keeps its field count and its fields from
\* the fourth on.
C5_Frame ==
  pc = "done" =>
    /\ Len(OutRows) = Len(FileRows)
    /\ \A n \in 1..Len(FileRows) :
         /\ Len(OutRows[n]) >= Len(FileRows[n])
         /\ \A k \in 1..Len(FileRows[n]) :
              (k # 3 \/ n = 1) => OutRows[n][k] = FileRows[n][k]
         /\ Len(FileRows[n]) >= 3 => Len(OutRows[n]) = Len(FileRows[n])

\* C6: after a successful run the header is the header of the input file
\* with the label DescriptionJa appended when it had fewer than three
\* fields, and the header of the input file, field for field, when it had
\* three or more.
C6_Header ==
  pc = "done" =>
    /\ Len(OutRows) >= 1
    /\ OutRows[1] = IF Len(FileRows[1]) < 3
                    THEN Append(FileRows[1], DescriptionJa)
                    ELSE FileRows[1]

\* C7: a data row of fewer than three fields (none, one or two) is never
\* the cause of a failure: processing it appends the translation looked up
\* by its first field as one new last field.
C7_ShortRowsAppend ==
  [][(pc = "process_row" /\ Len(row) < 3) =>
       /\ pc' = "write_row"
       /\ row' = Append(row, translations_get(row[1]))]_vars

\* C8 as claimed: every failure at any step leaves the final path as it
\* was and prints nothing; the confirmation is printed once, by a run that
\* has replaced the file; a failed replace leaves the complete temp file.
C8_AsClaimed ==
  /\ failedAt # "none" =>
       /\ pc \in {"exit_with", "aborted"}
       /\ finalData = orig
       /\ printed = 0
  /\ printed = (IF pc = "done" THEN 1 ELSE 0)
  /\ pc = "done" => failedAt = "none" /\ finalData = Transform(orig)
  /\ failedAt = "replace" =>
       tempExists /\ Processable(orig) /\ tempData = Transform(orig)

\* C8: a run that has failed takes no further step of the script; a
\* failure at any step up to and including the replace leaves the final
\* path as it was and prints nothing; a failure of the confirmation (print
\* raises, or the final flush of standard output fails) comes after the
\* replace and leaves the complete augmented document at the final path
\* and no temp file, with the text of the message on standard output or
\* not; the confirmation is printed at most once, and only by a run that
\* has replaced the file (a run that ends without a failure prints nothing
\* when standard output is closed); a failed replace leaves the complete
\* temp file on disk.
C8_FailureSemantics ==
  /\ failedAt # "none" => pc \in {"exit_with", "aborted"}
  /\ failedAt \notin {"none", "print", "flush_stdout"} =>
       /\ finalData = orig
       /\ printed = 0
  /\ failedAt \in {"print", "flush_stdout"} =>
       /\ pc = "aborted"
       /\ Processable(orig)
       /\ finalData = Transform(orig)
       /\ ~ tempExists
  /\ printed \in {0, 1}
  /\ printed = 1 =>
       /\ pc = "done" \/ failedAt \in {"print", "flush_stdout"}
       /\ Processable(orig)
       /\ finalData = Transform(orig)
       /\ ~ tempExists
  /\ pc = "done" => failedAt = "none" /\ finalData = Transform(orig)
  /\ failedAt = "replace" =>
       tempExists /\ Processable(orig) /\ tempData = Transform(orig)

C8_Witness ==
  /\ pc = "aborted"
  /\ failedAt = "print"
  /\ finalData # orig
  /\ Len(InRows) >= 2

\* C9: when a run has ended, by success or by a failure, both handles are
\* closed, and the replace step is only taken with both handles closed.
C9_HandlesClosed ==
  pc \in {"replace", "print", "done", "aborted"} =>
    ~ f_in_open /\ ~ f_out_open

C9_Witness ==
  /\ pc = "aborted"
  /\ failedAt = "open_out"
  /\ ~ f_in_open

\* C10: a run that has replaced the file leaves no temp file; from the
\* moment a run has opened the temp file until it replaces the final file,
\* the temp file exists and holds a leading part of what the run writes,
\* never rows an earlier run left there and never rows beyond a failing
\* one; a run that stops at a row it cannot process leaves the header and
\* the rows before that row.
C10_TempFile ==
  /\ (pc \in {"print", "done"} \/ failedAt \in {"print", "flush_stdout"}) =>
       ~ tempExists
  /\ (pc \in {"read_header", "augment_header", "write_header", "read_row",
              "process_row", "write_row", "replace"}
      \/ (pc \in {"exit_with", "aborted"}
          /\ failedAt \notin {"open_in", "open_out", "print",
                              "flush_stdout"})) =>
       /\ tempExists
       /\ IsPrefix(tempData, Transform(orig))
       /\ IsPrefix(Written, Transform(orig))
  /\ (pc = "aborted" /\ failedAt = "process_row") =>
       tempData = Transform(orig)

C10_Witness ==
  /\ pc = "aborted"
  /\ failedAt = "process_row"
  /\ Len(reader(orig)) > 1 + Len(reader(tempData))

====
